---- MODULE Spec2Model ----
(***************************************************************************)
(* Ingestion pipeline and asynchronous task tracker of the RAG chatbot     *)
(* backend: app/api/routes.py (task map, background units, /api/ingest)    *)
(* and app/services/data_ingestion_service.py (process_source and the      *)
(* per-source-type pipelines), with the collaborators they call.           *)
(***************************************************************************)
EXTENDS Integers, Sequences, FiniteSets, TLC

(***************************************************************************)
(* Bounds of the model.                                                    *)
(***************************************************************************)
MaxCalls == 1        \* requests accepted over the process lifetime
MaxTextLen == 1800   \* longest text an extractor, caller or engine yields
MaxTextCalls == 2    \* text ingestions accepted where only /api/ingest is called
MaxYouTubeCalls == 2 \* video ingestions accepted where only videos are posted
MaxTokens == 5       \* words, blanks and marks of a text given to the correction
MaxCorrections == 2  \* times the correction is applied to its own result
MaxNameTokens == 3   \* parts of a filename given to the extension check

(***************************************************************************)
(* Program constants.                                                      *)
(***************************************************************************)
chunk_size == 1000
chunk_overlap == 200

Calls == 1..MaxCalls

(***************************************************************************)
(* Strings are sequences of one-character strings, so that rsplit, lower   *)
(* and the host comparison are computed and not assumed.                   *)
(***************************************************************************)
LowerChar(ch) ==
    CASE ch = "P" -> "p"
      [] ch = "D" -> "d"
      [] ch = "F" -> "f"
      [] ch = "M" -> "m"
      [] ch = "Y" -> "y"
      [] ch = "B" -> "b"
      [] ch = "E" -> "e"
      [] ch = "U" -> "u"
      [] ch = "I" -> "i"
      [] ch = "O" -> "o"
      [] ch = "K" -> "k"
      [] ch = "N" -> "n"
      [] ch = "W" -> "w"
      [] ch = "H" -> "h"
      [] ch = "R" -> "r"
      [] OTHER -> ch

Lower(s) == [i \in 1..Len(s) |-> LowerChar(s[i])]

HasDot(s) == \E i \in 1..Len(s) : s[i] = "."

LastDot(s) == CHOOSE i \in 1..Len(s) : s[i] = "." /\ \A j \in (i+1)..Len(s) : s[j] # "."

\* filename.rsplit(".", 1)[1] for a name that contains a dot
AfterLastDot(s) == SubSeq(s, LastDot(s) + 1, Len(s))

\* an extension check that compares the extension as it is written
_is_allowed_file_case_sensitive(filename) ==
    HasDot(filename) /\ AfterLastDot(filename) \in {<<"p","d","f">>, <<"m","d">>}

\* routes.py _is_allowed_file with the default allowed_extensions
_is_allowed_file(filename) ==
    HasDot(filename) /\ Lower(AfterLastDot(filename)) \in {<<"p","d","f">>, <<"m","d">>}

\* routes.py _determine_file_type: "pdf", "markdown", or "ValueError"
_determine_file_type(filename) ==
    LET file_extension == IF HasDot(filename) THEN Lower(AfterLastDot(filename)) ELSE <<>>
    IN  IF file_extension = <<"p","d","f">> THEN "pdf"
        ELSE IF file_extension = <<"m","d">> THEN "markdown"
        ELSE "ValueError"

(***************************************************************************)
(* werkzeug secure_filename, on the characters of the model's alphabet:    *)
(* characters outside ASCII are dropped, path separators become "_",       *)
(* and leading and trailing dots and underscores are stripped.             *)
(***************************************************************************)
IsAsciiChar(ch) == ch # "~"     \* "~" stands for a character outside ASCII

RECURSIVE DropNonAscii(_)
DropNonAscii(s) ==
    IF s = <<>> THEN <<>>
    ELSE IF IsAsciiChar(Head(s)) THEN <<Head(s)>> \o DropNonAscii(Tail(s))
    ELSE DropNonAscii(Tail(s))

SepToUnderscore(s) == [i \in 1..Len(s) |-> IF s[i] = "/" THEN "_" ELSE s[i]]

RECURSIVE StripLeft(_)
StripLeft(s) ==
    IF s # <<>> /\ Head(s) \in {".", "_"} THEN StripLeft(Tail(s)) ELSE s

RECURSIVE StripRight(_)
StripRight(s) ==
    IF s # <<>> /\ s[Len(s)] \in {".", "_"} THEN StripRight(SubSeq(s, 1, Len(s) - 1)) ELSE s

secure_filename(s) == StripRight(StripLeft(SepToUnderscore(DropNonAscii(s))))

(***************************************************************************)
(* text_correction_service.py on strings.  The regular expressions are     *)
(* computed on the characters: "\s" is a blank or a line break, "\b" is    *)
(* the border between a letter and anything else, "[.!?]" ends a sentence. *)
(***************************************************************************)
IsSpace(ch) == ch \in {" ", "\n"}

IsSentenceEnd(ch) == ch \in {".", "!", "?"}

IsWordChar(ch) == ~IsSpace(ch) /\ ~IsSentenceEnd(ch)

IsLowerChar(ch) == ch \in {"b", "u", "m", "i", "y", "o", "k", "n", "w", "h", "e", "r"}

UpperChar(ch) ==
    CASE ch = "b" -> "B"
      [] ch = "u" -> "U"
      [] ch = "m" -> "M"
      [] ch = "i" -> "I"
      [] ch = "y" -> "Y"
      [] ch = "o" -> "O"
      [] ch = "k" -> "K"
      [] ch = "n" -> "N"
      [] ch = "w" -> "W"
      [] ch = "h" -> "H"
      [] ch = "e" -> "E"
      [] ch = "r" -> "R"
      [] OTHER -> ch

\* str.strip()
RECURSIVE LStrip(_)
LStrip(s) == IF s # <<>> /\ IsSpace(Head(s)) THEN LStrip(Tail(s)) ELSE s

RECURSIVE RStrip(_)
RStrip(s) ==
    IF s # <<>> /\ IsSpace(s[Len(s)]) THEN RStrip(SubSeq(s, 1, Len(s) - 1)) ELSE s

Strip(s) == RStrip(LStrip(s))

\* re.sub(r"\s+", " ", text), line 74
RECURSIVE CollapseWhitespace(_)
CollapseWhitespace(s) ==
    IF s = <<>> THEN <<>>
    ELSE IF IsSpace(Head(s)) THEN <<" ">> \o CollapseWhitespace(LStrip(s))
    ELSE <<Head(s)>> \o CollapseWhitespace(Tail(s))

HasLineBreak(s) == \E i \in 1..Len(s) : s[i] = "\n"

FirstLineBreak(s) == CHOOSE i \in 1..Len(s) : s[i] = "\n" /\ \A j \in 1..(i-1) : s[j] # "\n"

\* "\n".join(line.strip() for line in text.split("\n")), line 76
RECURSIVE StripLines(_)
StripLines(s) ==
    IF HasLineBreak(s)
    THEN Strip(SubSeq(s, 1, FirstLineBreak(s) - 1)) \o <<"\n">>
         \o StripLines(SubSeq(s, FirstLineBreak(s) + 1, Len(s)))
    ELSE Strip(s)

_normalize_whitespace(text) == StripLines(CollapseWhitespace(text))

\* re.sub(r"\bword\b", replacement, text, flags=re.IGNORECASE) for a word
\* of letters; after_word says whether the character before s is a letter
RECURSIVE SubWord(_, _, _, _)
SubWord(s, after_word, word, replacement) ==
    IF s = <<>> THEN <<>>
    ELSE IF /\ ~after_word
            /\ Len(s) >= Len(word)
            /\ Lower(SubSeq(s, 1, Len(word))) = word
            /\ (Len(s) = Len(word) \/ ~IsWordChar(s[Len(word) + 1]))
         THEN replacement \o SubWord(SubSeq(s, Len(word) + 1, Len(s)), TRUE, word, replacement)
         ELSE <<Head(s)>> \o SubWord(Tail(s), IsWordChar(Head(s)), word, replacement)

YOU == <<"y","o","u">>
KNOW == <<"k","n","o","w">>

\* re.sub(r"\byou\s+know\b", "you know", text, flags=re.IGNORECASE)
RECURSIVE SubYouKnow(_, _)
SubYouKnow(s, after_word) ==
    LET rest == SubSeq(s, Len(YOU) + 1, Len(s))
        tail == LStrip(rest)
    IN  IF s = <<>> THEN <<>>
        ELSE IF /\ ~after_word
                /\ Len(s) >= Len(YOU)
                /\ Lower(SubSeq(s, 1, Len(YOU))) = YOU
                /\ Len(tail) < Len(rest)
                /\ Len(tail) >= Len(KNOW)
                /\ Lower(SubSeq(tail, 1, Len(KNOW))) = KNOW
                /\ (Len(tail) = Len(KNOW) \/ ~IsWordChar(tail[Len(KNOW) + 1]))
             THEN YOU \o <<" ">> \o KNOW
                  \o SubYouKnow(SubSeq(tail, Len(KNOW) + 1, Len(tail)), TRUE)
             ELSE <<Head(s)>> \o SubYouKnow(Tail(s), IsWordChar(Head(s)))

\* lines 90-102: the five substitutions, in the order of the dictionary
_fix_common_transcription_errors(text) ==
    LET t1 == SubWord(text, FALSE, <<"i">>, <<"I">>)
        t2 == SubYouKnow(t1, FALSE)
        t3 == SubWord(t2, FALSE, <<"u","h">>, <<>>)
        t4 == SubWord(t3, FALSE, <<"u","m">>, <<>>)
    IN  SubWord(t4, FALSE, <<"e","r">>, <<>>)

\* lines 120-124, for one line
ImproveLine(l) ==
    LET line == Strip(l)
    IN  IF line # <<>> /\ ~IsSentenceEnd(line[Len(line)]) /\ Len(line) > 10
        THEN line \o <<".">>
        ELSE line

RECURSIVE _improve_punctuation(_)
_improve_punctuation(text) ==
    IF HasLineBreak(text)
    THEN ImproveLine(SubSeq(text, 1, FirstLineBreak(text) - 1)) \o <<"\n">>
         \o _improve_punctuation(SubSeq(text, FirstLineBreak(text) + 1, Len(text)))
    ELSE ImproveLine(text)

\* re.sub(r"(^|[.!?]\s+)([a-z])", ..., flags=re.MULTILINE), lines 140-145:
\* a lower-case letter is raised at the start of a line and after a
\* sentence end followed by whitespace.  line_start: s begins a line;
\* run: 0 nothing, 1 a sentence end just before, 2 whitespace after one
RECURSIVE CapitalizeMatches(_, _, _)
CapitalizeMatches(s, line_start, run) ==
    IF s = <<>> THEN <<>>
    ELSE LET ch == Head(s)
             out == IF IsLowerChar(ch) /\ (line_start \/ run = 2) THEN UpperChar(ch) ELSE ch
             next_run == IF IsSentenceEnd(ch) THEN 1
                         ELSE IF IsSpace(ch) /\ run \in {1, 2} THEN 2
                         ELSE 0
         IN  <<out>> \o CapitalizeMatches(Tail(s), ch = "\n", next_run)

_capitalize_sentences(text) ==
    LET t == CapitalizeMatches(text, TRUE, 0)
    IN  IF t # <<>> /\ IsLowerChar(t[1]) THEN <<UpperChar(t[1])>> \o Tail(t) ELSE t

NoReturn == [raised |-> "none", text |-> <<>>, internal_error |-> FALSE]

\* a correction without the handler of lines 58-61
correct_transcription_propagates(raw_text, internal_error) ==
    IF raw_text = <<>> \/ internal_error
    THEN [NoReturn EXCEPT !.raised = IF raw_text = <<>> THEN "ValueError" ELSE "Exception"]
    ELSE [NoReturn EXCEPT !.text =
            Strip(_capitalize_sentences(_improve_punctuation(
                _fix_common_transcription_errors(_normalize_whitespace(raw_text)))))]

\* TextCorrectionService.correct_transcription, lines 41-61, for a string:
\* internal_error says whether a step inside the try block raised
TextCorrectionService_correct_transcription(raw_text, internal_error) ==
    IF raw_text = <<>>
    THEN [NoReturn EXCEPT !.raised = "ValueError"]
    ELSE IF internal_error
    THEN [NoReturn EXCEPT !.text = raw_text, !.internal_error = TRUE]
    ELSE [NoReturn EXCEPT !.text =
            Strip(_capitalize_sentences(_improve_punctuation(
                _fix_common_transcription_errors(_normalize_whitespace(raw_text)))))]

(***************************************************************************)
(* URLs as urlparse sees them: a scheme and a network location.            *)
(***************************************************************************)
YOUTUBE == <<"y","o","u","t","u","b","e",".","c","o","m">>

YouTubeHosts ==
    { YOUTUBE,
      <<"w","w","w",".">> \o YOUTUBE,
      <<"y","o","u","t","u",".","b","e">>,
      <<"m","u","s","i","c",".">> \o YOUTUBE }

\* a host check that lets every URL through
is_youtube_url_any_host(url) == TRUE

\* youtube_downloader_service.py is_youtube_url
is_youtube_url(url) == Lower(url.netloc) \in YouTubeHosts

WebUrl == [scheme |-> "https", netloc |-> <<"e","x",".","c","o","m">>]
YtUrl == [scheme |-> "https", netloc |-> <<"Y","o","u","t","u",".","B","E">>]
NoUrl == [scheme |-> "", netloc |-> <<>>]

Urls == {WebUrl, YtUrl}

(***************************************************************************)
(* Texts are known by where they come from and by their length: "doc" is   *)
(* caller or extractor text, "blank" is whitespace only, "raw" and         *)
(* "corrected" are transcripts, "fallback" is the URL-only string of       *)
(* _process_youtube (it alone carries a URL), "none" is Python's None.      *)
(***************************************************************************)
NoneText == [kind |-> "none", len |-> 0, url |-> NoUrl]
EmptyText == [kind |-> "doc", len |-> 0, url |-> NoUrl]
BlankText == [kind |-> "blank", len |-> 1, url |-> NoUrl]

TextLens == {1, MaxTextLen}

DocTexts == {[kind |-> "doc", len |-> n, url |-> NoUrl] : n \in TextLens}

Truthy(t) == t.kind # "none" /\ t.len > 0

\* str.strip() leaves nothing
StripsToEmpty(t) == t.len = 0 \/ t.kind = "blank"

\* the f-string "YouTube video: {youtube_url}"
FallbackText(youtube_url) ==
    [kind |-> "fallback", len |-> 23 + Len(youtube_url.netloc), url |-> youtube_url]

(***************************************************************************)
(* RecursiveCharacterTextSplitter(chunk_size, chunk_overlap).split_text:   *)
(* the number of chunks of a text, whitespace stripped and empty chunks    *)
(* dropped; consecutive chunks start chunk_size - chunk_overlap apart.     *)
(***************************************************************************)
NumChunks(t) ==
    LET stride == chunk_size - chunk_overlap
    IN  IF StripsToEmpty(t) THEN 0
        ELSE IF t.len <= chunk_size THEN 1
        ELSE 1 + ((t.len - chunk_size + stride - 1) \div stride)

split_text(t) == [i \in 1..NumChunks(t) |-> [text |-> t, i |-> i]]

(***************************************************************************)
(* Metadata dictionaries are functions from keys to values.                *)
(***************************************************************************)
EmptyMeta == [k \in {} |-> ""]

\* dict.update: the entries of b replace those of a
DictUpdate(a, b) ==
    [k \in (DOMAIN a) \cup (DOMAIN b) |-> IF k \in DOMAIN b THEN b[k] ELSE a[k]]

\* metadata a caller of /api/ingest supplies: its keys collide with the
\* "source" of the loaders and the "source_type" of the audio pipeline
CallerMeta == [source |-> "caller", source_type |-> "caller", topic |-> "caller"]

\* metadata of the first document a loader returns
LoaderMeta == [source |-> "loader"]

(***************************************************************************)
(* Requests the callers send.                                              *)
(***************************************************************************)
FtpUrl == [scheme |-> "ftp", netloc |-> <<"e","x",".","c","o","m">>]

Filenames ==
    { <<"a",".","p","d","f">>,      \* a.pdf
      <<"a",".","M","D">>,          \* a.MD
      <<"~",".","m","d">>,          \* a name of non-ASCII characters, .md
      <<"a",".","e","x","e">> }     \* a.exe

\* a JSON body of /api/data_source/add: its "type" is a string, is absent
\* ("missing") or is a JSON array ("list"); its "value" is the URL (text is
\* None then), the text, absent or a number
MissingValue == [kind |-> "missing", len |-> 0, url |-> NoUrl]
NumberValue == [kind |-> "number", len |-> 0, url |-> NoUrl]

AddRequests ==
    {[type |-> "url", url |-> u, text |-> NoneText] : u \in Urls \cup {FtpUrl, NoUrl}}
    \cup {[type |-> "markdown", url |-> NoUrl, text |-> t] :
            t \in DocTexts \cup {EmptyText, BlankText, MissingValue, NumberValue}}
    \cup {[type |-> ty, url |-> WebUrl, text |-> NoneText] : ty \in {"pdf", "missing", "list"}}
    \cup {[type |-> "list", url |-> NoUrl, text |-> MissingValue]}

IngestRequests ==
    {[source_type |-> "text", url |-> NoUrl, text |-> t, metadata |-> m] :
        t \in DocTexts \cup {EmptyText, BlankText}, m \in {EmptyMeta, CallerMeta}}
    \cup {[source_type |-> st, url |-> NoUrl, text |-> NoneText, metadata |-> CallerMeta] :
            st \in {"pdf", "markdown", "file"}}
    \cup {[source_type |-> st, url |-> u, text |-> NoneText, metadata |-> CallerMeta] :
            st \in {"url", "youtube"}, u \in Urls}

(***************************************************************************)
(* State.                                                                  *)
(***************************************************************************)
VARIABLES
    pc,              \* where each request's handler or background unit stands
    req,             \* the request as received
    loc,             \* locals of the unit and of process_source
    ext,             \* log of the calls made to the external collaborators
    upload_tasks,    \* routes.py upload_tasks, keyed by task id
    resp,            \* HTTP status answered to each request (0: none yet)
    tmp,             \* task ids whose uploaded temporary file exists
    fs,              \* download directory: who wrote each audio file (0: absent)
    transcriptions,  \* rows of the transcriptions table, by id
    collection,      \* entries of the vector-store collection, doc_0 first
    fcall            \* a direct call of one service function: argument and returns

vars == <<pc, req, loc, ext, upload_tasks, resp, tmp, fs, transcriptions, collection, fcall>>

NoReq ==
    [kind |-> "none", source_type |-> "", url |-> NoUrl, text |-> NoneText,
     filename |-> <<>>, metadata |-> EmptyMeta]

NoLoc ==
    [original_filename |-> <<>>, ptype |-> "", metadata |-> EmptyMeta,
     rec |-> 0, path |-> NoUrl, text |-> NoneText, combined_metadata |-> EmptyMeta,
     success |-> "none", result |-> "none", raised |-> "none"]

NoExt ==
    [loaded |-> "none", chunks |-> -1, create |-> 0, download |-> 0, transcribe |-> 0, correct |-> 0,
     embed |-> 0, upsert |-> 0, cleanup |-> 0,
     record |-> 0, downloaded |-> NoUrl, engine |-> "none",
     documents |-> <<>>, embeddings |-> <<>>, metadatas |-> <<>>, stored |-> "none"]

Msg(text, detail) == [text |-> text, detail |-> detail]

YtUrls == {u \in Urls : is_youtube_url(u)}

\* the process has started and no request has arrived
InitFor(calls) ==
    /\ pc = [c \in calls |-> "idle"]
    /\ req = [c \in calls |-> NoReq]
    /\ loc = [c \in calls |-> NoLoc]
    /\ ext = [c \in calls |-> NoExt]
    /\ upload_tasks = [t \in {} |-> Msg("", "")]
    /\ resp = [c \in calls |-> 0]
    /\ tmp = {}
    /\ fs = [u \in YtUrls |-> 0]
    /\ transcriptions = <<>>
    /\ collection = <<>>

\* no service function is called on its own while the server handles requests
NoCall == [fn |-> "none", arg |-> <<>>, rets |-> <<>>]

Init == InitFor(Calls) /\ fcall = NoCall

\* the log of a process_source call is kept until its caller has looked at
\* the result
Forget(c) == ext' = [ext EXCEPT ![c] = NoExt]

\* requests are numbered in the order they arrive; the number is the task id
NextCall(c) == pc[c] = "idle" /\ \A d \in 1..(c - 1) : pc[d] # "idle"

(***************************************************************************)
(* routes.py upload_file: POST /api/data_source/upload                     *)
(***************************************************************************)
upload_file(c, fname) ==
    /\ NextCall(c)
    /\ req' = [req EXCEPT ![c] = [NoReq EXCEPT !.kind = "upload", !.filename = fname]]
    /\ IF fname = <<>> \/ ~_is_allowed_file(fname)
       THEN /\ resp' = [resp EXCEPT ![c] = 400]
            /\ pc' = [pc EXCEPT ![c] = "done"]
            /\ UNCHANGED <<loc, upload_tasks, tmp>>
       ELSE LET secured == secure_filename(fname)
                filename == IF secured = <<>> THEN <<"u",".","p","d","f">> ELSE secured
            IN  /\ tmp' = tmp \cup {c}
                /\ upload_tasks' =
                      [t \in (DOMAIN upload_tasks) \cup {c} |->
                          IF t = c
                          THEN [status |-> "queued", task_id |-> c,
                                message |-> Msg("File uploaded, processing queued", "")]
                          ELSE upload_tasks[t]]
                /\ loc' = [loc EXCEPT ![c].original_filename = filename]
                /\ resp' = [resp EXCEPT ![c] = 202]
                /\ pc' = [pc EXCEPT ![c] = "queued"]
    /\ UNCHANGED <<ext, fs, transcriptions, collection, fcall>>

(***************************************************************************)
(* routes.py add_data_source: POST /api/data_source/add                    *)
(***************************************************************************)
\* lines 523-551: the validation of the body; 202 stands for "accepted".
\* `source_type not in allowed_types` hashes source_type: a JSON array is
\* unhashable, the TypeError is answered by the outer handler with 500.
add_validation(data) ==
    LET source_value_falsy ==
            IF data.text.kind = "none" THEN data.url = NoUrl ELSE data.text.len = 0
        source_value_is_str == data.text.kind # "number"
        source_value_blank == data.text.kind = "blank"
    IN  IF data.type = "missing" \/ data.text.kind = "missing" THEN 400
        ELSE IF data.type = "list" THEN 500
        ELSE IF data.type \notin {"url", "markdown"} THEN 400
        ELSE IF source_value_falsy \/ ~source_value_is_str \/ source_value_blank THEN 400
        ELSE IF data.type = "url" /\ data.url.scheme \notin {"http", "https"} THEN 400
        ELSE 202

add_data_source(c, data) ==
    /\ NextCall(c)
    /\ req' = [req EXCEPT ![c] = [NoReq EXCEPT !.kind = "add", !.source_type = data.type,
                                                !.url = data.url, !.text = data.text]]
    /\ IF add_validation(data) # 202
       THEN /\ resp' = [resp EXCEPT ![c] = add_validation(data)]
            /\ pc' = [pc EXCEPT ![c] = "done"]
            /\ UNCHANGED upload_tasks
       ELSE /\ upload_tasks' =
                  [t \in (DOMAIN upload_tasks) \cup {c} |->
                      IF t = c
                      THEN [status |-> "queued", task_id |-> c,
                            message |-> Msg("Data source queued for processing", "")]
                      ELSE upload_tasks[t]]
            /\ resp' = [resp EXCEPT ![c] = 202]
            /\ pc' = [pc EXCEPT ![c] = "queued"]
    /\ UNCHANGED <<loc, ext, tmp, fs, transcriptions, collection, fcall>>

(***************************************************************************)
(* routes.py ingest_data: POST /api/ingest, up to the call of              *)
(* process_source; ingest_data_respond answers.                            *)
(***************************************************************************)
ingest_data(c, data) ==
    /\ NextCall(c)
    /\ req' = [req EXCEPT ![c] = [NoReq EXCEPT !.kind = "ingest", !.source_type = data.source_type,
                                                !.url = data.url, !.text = data.text,
                                                !.metadata = data.metadata]]
    /\ loc' = [loc EXCEPT ![c].ptype = data.source_type, ![c].metadata = data.metadata]
    /\ pc' = [pc EXCEPT ![c] = "process_source"]
    /\ UNCHANGED <<ext, upload_tasks, resp, tmp, fs, transcriptions, collection, fcall>>

\* variant of ingest_response: every exception is answered alike
ingest_response_any_exception(raised, result) ==
    IF raised = "none" /\ result = "true" THEN 200 ELSE 500

\* lines 264-271: 200 if success, 400 on ValueError, 500 otherwise
ingest_response(raised, result) ==
    IF raised # "none" THEN 400
    ELSE IF result = "true" THEN 200
    ELSE 500

ingest_data_respond(c) ==
    /\ pc[c] = "returned" /\ req[c].kind = "ingest"
    /\ resp' = [resp EXCEPT ![c] = ingest_response(loc[c].raised, loc[c].result)]
    /\ pc' = [pc EXCEPT ![c] = "done"]
    /\ Forget(c)
    /\ UNCHANGED <<req, loc, upload_tasks, tmp, fs, transcriptions, collection, fcall>>

(***************************************************************************)
(* routes.py _process_upload_async: the background unit of an upload.      *)
(***************************************************************************)
_process_upload_async(c) ==
    /\ pc[c] = "queued" /\ req[c].kind = "upload"
    /\ upload_tasks' = [upload_tasks EXCEPT ![c].status = "processing"]
    /\ LET source_type == _determine_file_type(loc[c].original_filename)
       IN  IF source_type = "ValueError"
           THEN /\ loc' = [loc EXCEPT ![c] = [NoLoc EXCEPT !.raised = "Unsupported file type"]]
                /\ pc' = [pc EXCEPT ![c] = "returned"]
           ELSE /\ loc' = [loc EXCEPT ![c].ptype = source_type,
                                      ![c].metadata =
                                          [source_type |-> "upload",
                                           original_filename |-> loc[c].original_filename,
                                           task_id |-> c]]
                /\ pc' = [pc EXCEPT ![c] = "process_source"]
    /\ UNCHANGED <<req, ext, resp, tmp, fs, transcriptions, collection, fcall>>

\* variants of final_status: failed work goes back to the queue; the value
\* process_source returned is not looked at; a failure leaves the status alone
final_status_requeue(raised, result) ==
    IF raised = "none" /\ result = "true" THEN "completed" ELSE "queued"

final_status_ignores_result(raised, result) ==
    IF raised = "none" THEN "completed" ELSE "failed"

final_status_unset(raised, result) ==
    IF raised = "none" /\ result = "true" THEN "completed" ELSE "processing"

\* lines 341-350 and 395-404: the status a unit writes when it ends
final_status(raised, result) ==
    IF raised = "none" /\ result = "true" THEN "completed" ELSE "failed"

\* lines 341-351: the status is written first, the message after it
_process_upload_async_status(c) ==
    /\ pc[c] = "returned" /\ req[c].kind = "upload"
    /\ upload_tasks' = [upload_tasks EXCEPT ![c].status =
                           final_status(loc[c].raised, loc[c].result)]
    /\ pc' = [pc EXCEPT ![c] = "message"]
    /\ Forget(c)
    /\ UNCHANGED <<req, loc, resp, tmp, fs, transcriptions, collection, fcall>>

_process_upload_async_message(c) ==
    /\ pc[c] = "message" /\ req[c].kind = "upload"
    /\ upload_tasks' = [upload_tasks EXCEPT ![c].message =
                           IF loc[c].raised # "none" THEN Msg("Processing error", loc[c].raised)
                           ELSE IF loc[c].result = "true" THEN Msg("File processed successfully", "")
                           ELSE Msg("Failed to process file", "")]
    /\ pc' = [pc EXCEPT ![c] = "finally"]
    /\ UNCHANGED <<req, loc, ext, resp, tmp, fs, transcriptions, collection, fcall>>

\* variant of _process_upload_async_finally: the file is deleted on the
\* success path only
_process_upload_async_finally_on_success(c) ==
    /\ pc[c] = "finally" /\ req[c].kind = "upload"
    /\ tmp' = IF upload_tasks[c].status = "completed" THEN tmp \ {c} ELSE tmp
    /\ pc' = [pc EXCEPT ![c] = "done"]
    /\ UNCHANGED <<req, loc, ext, upload_tasks, resp, fs, transcriptions, collection, fcall>>

\* lines 352-358: finally, delete the temporary file
_process_upload_async_finally(c) ==
    /\ pc[c] = "finally" /\ req[c].kind = "upload"
    /\ tmp' = tmp \ {c}
    /\ pc' = [pc EXCEPT ![c] = "done"]
    /\ UNCHANGED <<req, loc, ext, upload_tasks, resp, fs, transcriptions, collection, fcall>>

(***************************************************************************)
(* routes.py _process_data_source_async: the background unit of an add.    *)
(***************************************************************************)
_process_data_source_async(c) ==
    /\ pc[c] = "queued" /\ req[c].kind = "add"
    /\ upload_tasks' = [upload_tasks EXCEPT ![c].status = "processing"]
    /\ LET source_type == req[c].source_type
           processing_type ==
               IF source_type = "url"
               THEN (IF is_youtube_url(req[c].url) THEN "youtube" ELSE "url")
               ELSE IF source_type = "markdown" THEN "text"
               ELSE source_type
       IN  loc' = [loc EXCEPT ![c].ptype = processing_type,
                              ![c].metadata = [source_type |-> source_type, task_id |-> c]]
    /\ pc' = [pc EXCEPT ![c] = "process_source"]
    /\ UNCHANGED <<req, ext, resp, tmp, fs, transcriptions, collection, fcall>>

_process_data_source_async_status(c) ==
    /\ pc[c] = "returned" /\ req[c].kind = "add"
    /\ upload_tasks' = [upload_tasks EXCEPT ![c].status =
                           final_status(loc[c].raised, loc[c].result)]
    /\ pc' = [pc EXCEPT ![c] = "message"]
    /\ Forget(c)
    /\ UNCHANGED <<req, loc, resp, tmp, fs, transcriptions, collection, fcall>>

_process_data_source_async_message(c) ==
    /\ pc[c] = "message" /\ req[c].kind = "add"
    /\ upload_tasks' = [upload_tasks EXCEPT ![c].message =
                           IF loc[c].raised # "none" THEN Msg("Processing error", loc[c].raised)
                           ELSE IF loc[c].result = "true"
                                THEN Msg("Data source processed successfully", "")
                           ELSE Msg("Failed to process data source", "")]
    /\ pc' = [pc EXCEPT ![c] = "done"]
    /\ UNCHANGED <<req, loc, ext, resp, tmp, fs, transcriptions, collection, fcall>>

(***************************************************************************)
(* routes.py get_upload_status and get_data_source_status: what a GET of   *)
(* the status of task_id answers in the current state.  Task ids are the   *)
(* request numbers; 0 is an id no request was given.                       *)
(***************************************************************************)
TaskIds == {0} \cup Calls

NotFound == [code |-> 404, body |-> [error |-> "Task not found"]]

\* variant of get_upload_status: an unknown id is answered as a new task
get_upload_status_default(task_id) ==
    IF task_id \notin DOMAIN upload_tasks
    THEN [code |-> 200, body |-> [status |-> "queued", task_id |-> task_id,
                                  message |-> Msg("", "")]]
    ELSE [code |-> 200, body |-> upload_tasks[task_id]]

get_upload_status(task_id) ==
    IF task_id \notin DOMAIN upload_tasks THEN NotFound
    ELSE [code |-> 200, body |-> upload_tasks[task_id]]

get_data_source_status(task_id) ==
    IF task_id \notin DOMAIN upload_tasks THEN NotFound
    ELSE [code |-> 200, body |-> upload_tasks[task_id]]

(***************************************************************************)
(* data_ingestion_service.py process_source: dispatch on source_type.      *)
(***************************************************************************)
process_source(c) ==
    /\ pc[c] = "process_source"
    /\ LET st == loc[c].ptype
       IN  IF st = "text"
           THEN /\ loc' = [loc EXCEPT ![c].text = req[c].text,
                                      ![c].combined_metadata = loc[c].metadata]
                /\ pc' = [pc EXCEPT ![c] = "chunk"]
           ELSE IF st \in {"pdf", "markdown", "url"}
           THEN /\ pc' = [pc EXCEPT ![c] = "load"]
                /\ UNCHANGED loc
           ELSE IF st = "youtube"
           THEN /\ pc' = [pc EXCEPT ![c] = "yt_create"]
                /\ UNCHANGED loc
           ELSE /\ loc' = [loc EXCEPT ![c] = [NoLoc EXCEPT !.ptype = st,
                                                          !.raised = "Unsupported data source type"]]
                /\ pc' = [pc EXCEPT ![c] = "returned"]
    /\ UNCHANGED <<req, ext, upload_tasks, resp, tmp, fs, transcriptions, collection, fcall>>

\* what process_source hands back to its caller
Return(c, value) ==
    /\ loc' = [loc EXCEPT ![c] = [NoLoc EXCEPT !.ptype = loc[c].ptype, !.result = value]]
    /\ pc' = [pc EXCEPT ![c] = "returned"]

(***************************************************************************)
(* _process_pdf, _process_markdown, _process_url: load the documents,      *)
(* join their text, merge the first document's metadata over the caller's. *)
(* The loader raises, returns no documents, or returns documents whose     *)
(* text is blank or not.                                                   *)
(***************************************************************************)
LoaderOutcomes ==
    {[kind |-> k, len |-> 0, url |-> NoUrl] : k \in {"raise", "no_documents"}}
    \cup {BlankText} \cup DocTexts

LoadDocuments(c) ==
    /\ pc[c] = "load"
    /\ \E outcome \in LoaderOutcomes :
          /\ ext' = [ext EXCEPT ![c].loaded = outcome.kind]
          /\ IF outcome.kind \in {"raise", "no_documents"}
             THEN Return(c, "false")
             ELSE IF StripsToEmpty(outcome)
             THEN Return(c, "false")
             ELSE /\ loc' = [loc EXCEPT ![c].text = outcome,
                                        ![c].combined_metadata =
                                            DictUpdate(loc[c].metadata, LoaderMeta)]
                  /\ pc' = [pc EXCEPT ![c] = "chunk"]
    /\ UNCHANGED <<req, upload_tasks, resp, tmp, fs, transcriptions, collection, fcall>>

_process_pdf(c) == loc[c].ptype = "pdf" /\ LoadDocuments(c)

_process_markdown(c) == loc[c].ptype = "markdown" /\ LoadDocuments(c)

_process_url(c) == loc[c].ptype = "url" /\ LoadDocuments(c)

(***************************************************************************)
(* _chunk_embed_and_store.  Its caller is _process_youtube, which goes on   *)
(* to the cleanup, or one of the other _process_* methods, which return    *)
(* its value and turn an exception into False.                             *)
(***************************************************************************)
StoreReturns(c, value) ==
    IF loc[c].ptype = "youtube"
    THEN /\ loc' = [loc EXCEPT ![c].success = value]
         /\ pc' = [pc EXCEPT ![c] = "yt_cleanup"]
    ELSE Return(c, value)

\* an exception that reaches the outer handler of _process_youtube, which
\* uses the record and the exception and nothing else
RaiseToOuter(c, e) ==
    /\ loc' = [loc EXCEPT ![c] = [NoLoc EXCEPT !.ptype = loc[c].ptype, !.rec = loc[c].rec,
                                               !.raised = e]]
    /\ pc' = [pc EXCEPT ![c] = "yt_except"]

\* variant of StoreRaises: the caller has no handler of its own
StoreRaises_propagates(c, e) ==
    /\ loc' = [loc EXCEPT ![c] = [NoLoc EXCEPT !.ptype = loc[c].ptype, !.raised = e]]
    /\ pc' = [pc EXCEPT ![c] = "returned"]

StoreRaises(c, e) ==
    IF loc[c].ptype = "youtube"
    THEN RaiseToOuter(c, e)
    ELSE Return(c, "false")

\* embed_documents: one vector per chunk, in order
embed_documents(chunks) == [i \in 1..Len(chunks) |-> [of |-> chunks[i]]]

\* variant of Broadcast: the metadata is passed once
Broadcast_once(metadata, n) == <<metadata>>

\* [metadata or {}] * len(chunks)
Broadcast(metadata, n) == [i \in 1..n |-> metadata]

\* collection.add under the generated ids doc_0, doc_1, ...: an id that is
\* already in the collection keeps its entry
CollectionAdd(coll, documents, metadatas, embeddings) ==
    [i \in 1..(IF Len(coll) > Len(documents) THEN Len(coll) ELSE Len(documents)) |->
        IF i <= Len(coll) THEN coll[i]
        ELSE [document |-> documents[i], metadata |-> metadatas[i],
              embedding |-> embeddings[i]]]

\* chromadb_service.py add_documents: True, or False when anything raised
add_documents(documents, metadatas, embeddings, outcome) ==
    IF outcome = "ok" /\ Len(metadatas) = Len(documents) /\ Len(embeddings) = Len(documents)
    THEN [returns |-> "true", coll |-> CollectionAdd(collection, documents, metadatas, embeddings)]
    ELSE [returns |-> "false", coll |-> collection]

\* variant of NoChunks: the empty chunk list is not checked
NoChunks_unchecked(chunks) == FALSE

\* line 141: no chunks, no embedding and no storing
NoChunks(chunks) == chunks = <<>>

\* line 162: the value add_documents returned is not looked at
StoreResult(added) == "true"

\* lines 139-162.  The only effect others can see is the upsert at the end.
_chunk_embed_and_store(c) ==
    /\ pc[c] = "chunk"
    /\ LET chunks == split_text(loc[c].text)
       IN  IF NoChunks(chunks)
           THEN /\ ext' = [ext EXCEPT ![c].chunks = Len(chunks)]
                /\ StoreReturns(c, "false")
                /\ UNCHANGED collection
           ELSE \E embed \in {"ok", "raise"}, store \in {"ok", "raise"} :
                   IF embed = "raise"
                   THEN /\ store = "ok"
                        /\ ext' = [ext EXCEPT ![c].chunks = Len(chunks), ![c].embed = @ + 1]
                        /\ StoreRaises(c, "embedding failed")
                        /\ UNCHANGED collection
                   ELSE LET embeddings == embed_documents(chunks)
                            metadatas == Broadcast(loc[c].combined_metadata, Len(chunks))
                            added == add_documents(chunks, metadatas, embeddings, store)
                        IN  /\ collection' = added.coll
                            /\ ext' = [ext EXCEPT ![c].chunks = Len(chunks),
                                                  ![c].embed = @ + 1,
                                                  ![c].upsert = @ + 1,
                                                  ![c].documents = chunks,
                                                  ![c].metadatas = metadatas,
                                                  ![c].embeddings = embeddings,
                                                  ![c].stored = added.returns]
                            /\ StoreReturns(c, StoreResult(added))
    /\ UNCHANGED <<req, upload_tasks, resp, tmp, fs, transcriptions, fcall>>

(***************************************************************************)
(* persistence_service.py: the transcriptions table.                       *)
(***************************************************************************)
NewTranscription(youtube_url) ==
    [youtube_url |-> youtube_url, original_filename |-> NoUrl,
     transcription_text |-> NoneText, transcription_engine |-> "None",
     processing_duration |-> "None", status |-> "pending",
     error_message |-> "None", processed_at |-> "None"]

valid_attributes ==
    {"youtube_url", "original_filename", "video_duration", "transcription_text",
     "confidence_score", "transcription_engine", "processing_duration", "status",
     "error_message", "user_settings_id", "chat_history_id"}

\* update_transcription: the row after the call.  outcome "ok" commits;
\* "none" (SQLAlchemyError, rolled back) and "raise" leave the row as it was.
update_transcription(table, id, kwargs, outcome) ==
    IF outcome = "ok" /\ id \in DOMAIN table
    THEN [table EXCEPT ![id] =
            [k \in DOMAIN table[id] |->
                IF k \in (DOMAIN kwargs) \cap valid_attributes THEN kwargs[k]
                ELSE IF k = "processed_at" /\ "status" \in DOMAIN kwargs
                        /\ kwargs["status"] = "completed" THEN "utcnow"
                ELSE table[id][k]]]
    ELSE table

DbOutcomes == {"ok", "none", "raise"}

(***************************************************************************)
(* _process_youtube, lines 328-357: validate the URL and create the        *)
(* transcription record; a failure to create it is not an error.           *)
(***************************************************************************)
_process_youtube_create(c) ==
    /\ pc[c] = "yt_create"
    /\ IF ~is_youtube_url(req[c].url)
       THEN /\ Return(c, "false")
            /\ UNCHANGED <<ext, transcriptions>>
       ELSE /\ \E outcome \in DbOutcomes :
                  IF outcome = "ok"
                  THEN /\ transcriptions' = Append(transcriptions, NewTranscription(req[c].url))
                       /\ loc' = [loc EXCEPT ![c].rec = Len(transcriptions) + 1]
                       /\ ext' = [ext EXCEPT ![c].create = @ + 1,
                                             ![c].record = Len(transcriptions) + 1]
                  ELSE /\ UNCHANGED transcriptions
                       /\ loc' = [loc EXCEPT ![c].rec = 0]
                       /\ ext' = [ext EXCEPT ![c].create = @ + 1]
            /\ pc' = [pc EXCEPT ![c] = "yt_download"]
    /\ UNCHANGED <<req, upload_tasks, resp, tmp, fs, collection, fcall>>

(***************************************************************************)
(* _process_youtube, lines 359-387: download the audio; without a file,    *)
(* mark the record and return False; with one, note the file name in the   *)
(* record (an exception of that update is swallowed).                      *)
(***************************************************************************)
\* variant of NoAudioFile: the result of the download is not checked
NoAudioFile_unchecked(outcome) == FALSE

\* line 361: if not audio_file_path
NoAudioFile(outcome) == outcome = "none"

_process_youtube_download(c) ==
    /\ pc[c] = "yt_download"
    /\ LET youtube_url == req[c].url
           rec == loc[c].rec
       IN  \E outcome \in {"file", "none", "raise"}, db \in DbOutcomes :
              /\ rec = 0 => db = "ok"
              /\ ext' = [ext EXCEPT ![c].download = @ + 1,
                                    ![c].downloaded = IF outcome = "file" THEN youtube_url
                                                      ELSE NoUrl]
              /\ IF outcome = "raise"
                 THEN /\ db = "ok"
                      /\ RaiseToOuter(c, "download failed")
                      /\ UNCHANGED <<fs, transcriptions>>
                 ELSE IF NoAudioFile(outcome)
                 THEN /\ transcriptions' =
                            update_transcription(transcriptions, rec,
                                [status |-> "error",
                                 error_message |-> "Failed to download audio from YouTube"], db)
                      /\ IF db = "raise"
                         THEN RaiseToOuter(c, "database error")
                         ELSE Return(c, "false")
                      /\ UNCHANGED fs
                 ELSE /\ fs' = [fs EXCEPT ![youtube_url] = c]
                      /\ transcriptions' =
                            update_transcription(transcriptions, rec,
                                [original_filename |-> youtube_url,
                                 status |-> "processing"], db)
                      /\ loc' = [loc EXCEPT ![c].path = youtube_url]
                      /\ pc' = [pc EXCEPT ![c] = "yt_transcribe"]
    /\ UNCHANGED <<req, upload_tasks, resp, tmp, collection, fcall>>

(***************************************************************************)
(* whisper_transcription_service.py transcribe_audio: the stripped text    *)
(* (possibly empty), None, or an exception; a missing audio file raises.   *)
(***************************************************************************)
RawTexts == {[kind |-> "raw", len |-> n, url |-> NoUrl] : n \in {0, MaxTextLen}}

RaiseOutcome == [kind |-> "raise", len |-> 0, url |-> NoUrl]

transcribe_audio(path) ==
    IF fs[path] = 0 THEN {RaiseOutcome}
    ELSE RawTexts \cup {NoneText, RaiseOutcome}

\* text_correction_service.py correct_transcription as the pipeline sees it:
\* a corrected text, an empty text (all of it was filler), or the input
CorrectOutcomes == {"corrected", "emptied", "unchanged", "raise"}

correct_transcription(raw_text, outcome) ==
    IF outcome = "corrected" THEN [kind |-> "corrected", len |-> raw_text.len, url |-> NoUrl]
    ELSE IF outcome = "emptied" THEN [kind |-> "corrected", len |-> 0, url |-> NoUrl]
    ELSE raw_text

\* line 475
transcription_available(raw_transcription) == raw_transcription.kind # "none"

\* lines 482-489
text_content(corrected_transcription, raw_transcription, youtube_url) ==
    IF Truthy(corrected_transcription) \/ Truthy(raw_transcription)
    THEN (IF Truthy(corrected_transcription) THEN corrected_transcription
          ELSE raw_transcription)
    ELSE FallbackText(youtube_url)

(***************************************************************************)
(* _process_youtube, lines 389-489: transcribe, correct, record the        *)
(* result, build the metadata and choose the content.  An exception of     *)
(* the engine or of the record update inside the try block is handled at   *)
(* line 449, where the record update can raise again into the outer        *)
(* handler.                                                                *)
(***************************************************************************)
_process_youtube_transcribe(c) ==
    /\ pc[c] = "yt_transcribe"
    /\ LET youtube_url == req[c].url
           rec == loc[c].rec
           path == loc[c].path
       IN  \E t \in transcribe_audio(path), co \in CorrectOutcomes,
              db1 \in DbOutcomes, db2 \in DbOutcomes :
              LET engine_raised == t.kind = "raise"
                  corrected == IF ~engine_raised /\ Truthy(t)
                               THEN correct_transcription(t, co) ELSE NoneText
                  kwargs1 == IF Truthy(t)
                             THEN [transcription_text |-> t, corrected_text |-> corrected,
                                   transcription_engine |-> "whisper",
                                   processing_duration |-> "measured",
                                   status |-> "completed"]
                             ELSE [status |-> "error",
                                   error_message |-> "Transcription returned no text",
                                   transcription_engine |-> "whisper",
                                   processing_duration |-> "measured"]
                  table1 == IF engine_raised THEN transcriptions
                            ELSE update_transcription(transcriptions, rec, kwargs1, db1)
                  in_handler == engine_raised \/ (rec # 0 /\ db1 = "raise")
                  table2 == IF in_handler
                            THEN update_transcription(table1, rec,
                                    [status |-> "error",
                                     error_message |-> "Transcription failed",
                                     transcription_engine |-> "whisper",
                                     processing_duration |-> "measured"], db2)
                            ELSE table1
                  escaped == in_handler /\ rec # 0 /\ db2 = "raise"
                  raw == IF in_handler THEN NoneText ELSE t
              IN  /\ (engine_raised \/ ~Truthy(t)) => co = "unchanged"
                  /\ (engine_raised \/ rec = 0) => db1 = "ok"
                  /\ (~in_handler \/ rec = 0) => db2 = "ok"
                  /\ ext' = [ext EXCEPT ![c].transcribe = @ + 1,
                                        ![c].engine = IF engine_raised THEN "raise"
                                                      ELSE IF t = NoneText THEN "no_result"
                                                      ELSE IF t.len = 0 THEN "empty"
                                                      ELSE "text",
                                        ![c].correct = IF ~engine_raised /\ Truthy(t)
                                                       THEN @ + 1 ELSE @]
                  /\ transcriptions' = table2
                  /\ IF escaped
                     THEN RaiseToOuter(c, "database error")
                     ELSE /\ loc' = [loc EXCEPT
                                ![c].combined_metadata =
                                    DictUpdate(loc[c].metadata,
                                        [source_type |-> "youtube",
                                         youtube_url |-> youtube_url,
                                         audio_file_path |-> path,
                                         content_type |-> "audio/mp3",
                                         transcription_available |-> transcription_available(raw),
                                         transcription_record_id |-> rec]),
                                ![c].text = text_content(corrected, raw, youtube_url)]
                          /\ pc' = [pc EXCEPT ![c] = "chunk"]
    /\ UNCHANGED <<req, upload_tasks, resp, tmp, fs, collection, fcall>>

\* youtube_downloader_service.py cleanup_file: unlink the file if it exists
cleanup_file(files, path) == [files EXCEPT ![path] = 0]

(***************************************************************************)
(* _process_youtube, lines 496-513: delete the audio file and return what  *)
(* _chunk_embed_and_store returned.                                        *)
(***************************************************************************)
_process_youtube_cleanup(c) ==
    /\ pc[c] = "yt_cleanup"
    /\ ext' = [ext EXCEPT ![c].cleanup = @ + 1]
    /\ fs' = cleanup_file(fs, loc[c].path)
    /\ Return(c, loc[c].success)
    /\ UNCHANGED <<req, upload_tasks, resp, tmp, transcriptions, collection, fcall>>

(***************************************************************************)
(* _process_youtube, lines 515-531: the outer handler marks the record     *)
(* (an exception of that update is swallowed) and returns False.           *)
(***************************************************************************)
_process_youtube_except(c) ==
    /\ pc[c] = "yt_except"
    /\ \E db \in DbOutcomes :
          /\ loc[c].rec = 0 => db = "ok"
          /\ transcriptions' =
                update_transcription(transcriptions, loc[c].rec,
                    [status |-> "error", error_message |-> "Processing failed"], db)
    /\ Return(c, "false")
    /\ UNCHANGED <<req, ext, upload_tasks, resp, tmp, fs, collection, fcall>>

(***************************************************************************)
(* The system.                                                             *)
(***************************************************************************)
\* a request arrives
Request(c) ==
    \/ \E fname \in Filenames : upload_file(c, fname)
    \/ \E data \in AddRequests : add_data_source(c, data)
    \/ \E data \in IngestRequests : ingest_data(c, data)

\* a step of the handler or of the background unit of request c
Run(c) ==
    \/ ingest_data_respond(c)
    \/ _process_upload_async(c)
    \/ _process_upload_async_status(c)
    \/ _process_upload_async_message(c)
    \/ _process_upload_async_finally(c)
    \/ _process_data_source_async(c)
    \/ _process_data_source_async_status(c)
    \/ _process_data_source_async_message(c)
    \/ process_source(c)
    \/ _process_pdf(c)
    \/ _process_markdown(c)
    \/ _process_url(c)
    \/ _process_youtube_create(c)
    \/ _process_youtube_download(c)
    \/ _process_youtube_transcribe(c)
    \/ _process_youtube_cleanup(c)
    \/ _process_youtube_except(c)
    \/ _chunk_embed_and_store(c)

Next == \E c \in Calls : Request(c) \/ Run(c)

Spec == Init /\ [][Next]_vars

\* The process when its only clients post texts to /api/ingest, any number
\* of them at a time.
TextCalls == 1..MaxTextCalls

TextRequests == {data \in IngestRequests : data.source_type = "text"}

TextInit == InitFor(TextCalls) /\ fcall = NoCall

TextNext ==
    \E c \in TextCalls :
        \/ \E data \in TextRequests : ingest_data(c, data)
        \/ process_source(c)
        \/ _chunk_embed_and_store(c)
        \/ ingest_data_respond(c)

TextSpec == TextInit /\ [][TextNext]_vars

\* The process when its only clients post videos to /api/ingest, any number
\* of them at a time: the calls share the download directory.
YouTubeCalls == 1..MaxYouTubeCalls

YouTubeRequests ==
    {data \in IngestRequests : data.source_type = "youtube" /\ is_youtube_url(data.url)}

YouTubeInit == InitFor(YouTubeCalls) /\ fcall = NoCall

YouTubeNext ==
    \E c \in YouTubeCalls :
        \/ \E data \in YouTubeRequests : ingest_data(c, data)
        \/ process_source(c)
        \/ _process_youtube_create(c)
        \/ _process_youtube_download(c)
        \/ _process_youtube_transcribe(c)
        \/ _chunk_embed_and_store(c)
        \/ _process_youtube_cleanup(c)
        \/ _process_youtube_except(c)
        \/ ingest_data_respond(c)

YouTubeSpec == YouTubeInit /\ [][YouTubeNext]_vars

\* Every unit is a thread started when its task is created (routes.py lines
\* 470-474 and 568-572) and the handler of /api/ingest runs in the request's
\* thread: a thread that can take its next step is eventually scheduled,
\* and the calls it makes to its collaborators return or raise.
FairSpec == Spec /\ \A c \in Calls : WF_vars(Run(c))

(***************************************************************************)
(* The service functions called on their own, as their unit tests call     *)
(* them: the argument is drawn when the call is set up, each step applies  *)
(* the function and keeps what it returned.                                *)
(***************************************************************************)
RECURSIVE TokenTexts(_, _)
TokenTexts(tokens, n) ==
    IF n = 0 THEN {<<>>}
    ELSE LET shorter == TokenTexts(tokens, n - 1)
         IN  shorter \cup {t \o k : t \in shorter, k \in tokens}

CorrectionTokens == {<<"b">>, <<"u","m">>, <<"U","m">>, <<" ">>, <<"\n">>, <<".">>}

CorrectionInit ==
    /\ InitFor({})
    /\ fcall \in {[fn |-> "correct_transcription", arg |-> t, rets |-> <<>>] :
                    t \in TokenTexts(CorrectionTokens, MaxTokens)}

\* correct_transcription applied to the argument, then to its own result
correct_transcription_call ==
    /\ fcall.fn = "correct_transcription"
    /\ Len(fcall.rets) < MaxCorrections
    /\ fcall.rets # <<>> => fcall.rets[Len(fcall.rets)].ret.raised = "none"
    /\ LET raw_text == IF fcall.rets = <<>> THEN fcall.arg
                       ELSE fcall.rets[Len(fcall.rets)].ret.text
       IN  \E internal_error \in BOOLEAN :
               fcall' = [fcall EXCEPT !.rets = Append(@,
                   [arg |-> raw_text,
                    ret |-> TextCorrectionService_correct_transcription(raw_text, internal_error)])]
    /\ UNCHANGED <<pc, req, loc, ext, upload_tasks, resp, tmp, fs, transcriptions, collection>>

CorrectionNext == correct_transcription_call

CorrectionSpec == CorrectionInit /\ [][CorrectionNext]_vars

FilenameTokens ==
    {<<"a">>, <<".">>, <<"p","d","f">>, <<"P","D","F">>, <<"m","d">>, <<"m","D">>, <<"e","x","e">>}

FilenameInit ==
    /\ InitFor({})
    /\ fcall \in {[fn |-> "_is_allowed_file", arg |-> t, rets |-> <<>>] :
                    t \in TokenTexts(FilenameTokens, MaxNameTokens)}

_is_allowed_file_call ==
    /\ fcall.fn = "_is_allowed_file"
    /\ fcall.rets = <<>>
    /\ fcall' = [fcall EXCEPT !.rets = <<[arg |-> fcall.arg, ret |-> _is_allowed_file(fcall.arg)]>>]
    /\ UNCHANGED <<pc, req, loc, ext, upload_tasks, resp, tmp, fs, transcriptions, collection>>

FilenameNext == _is_allowed_file_call

FilenameSpec == FilenameInit /\ [][FilenameNext]_vars

(***************************************************************************)
(* Properties of the task tracker.                                         *)
(***************************************************************************)
StatusSteps ==
    {<<"queued", "processing">>, <<"processing", "completed">>, <<"processing", "failed">>}

TerminalStatuses == {"completed", "failed"}

\* C1: a task starts as queued and its status only ever moves from queued
\* to processing and from processing to completed or failed; it never skips
\* processing, never goes back, never changes once terminal, and a task is
\* never removed from the map.
C1_StatusOrder ==
    [][ /\ DOMAIN upload_tasks \subseteq DOMAIN upload_tasks'
        /\ \A t \in DOMAIN upload_tasks' :
              IF t \in DOMAIN upload_tasks
              THEN \/ upload_tasks'[t].status = upload_tasks[t].status
                   \/ <<upload_tasks[t].status, upload_tasks'[t].status>> \in StatusSteps
              ELSE upload_tasks'[t].status = "queued" ]_vars

\* a task that went all the way to completed
C1_Witness == \E t \in DOMAIN upload_tasks : upload_tasks[t].status = "completed"

\* C2: when a unit has finished, its task is completed exactly when
\* process_source returned true, failed when it returned false or when
\* something raised, and in the raised case the message carries the
\* description of the exception.
C2_FinalStatus ==
    \A c \in Calls :
        (pc[c] = "done" /\ c \in DOMAIN upload_tasks) =>
            /\ upload_tasks[c].status = "completed" <=> loc[c].result = "true"
            /\ (loc[c].result = "false" \/ loc[c].raised # "none") =>
                    upload_tasks[c].status = "failed"
            /\ loc[c].raised # "none" =>
                    upload_tasks[c].message = Msg("Processing error", loc[c].raised)

\* a unit that finished after an exception
C2_Witness ==
    \E c \in Calls :
        /\ pc[c] = "done" /\ c \in DOMAIN upload_tasks
        /\ loc[c].raised # "none" /\ upload_tasks[c].status = "failed"

\* C3: every task that was created eventually is completed or failed.
C3_Terminates ==
    \A c \in Calls :
        (c \in DOMAIN upload_tasks) ~>
            (c \in DOMAIN upload_tasks /\ upload_tasks[c].status \in TerminalStatuses)

\* a unit that finished after process_source returned false
C3_Witness ==
    \E c \in Calls :
        /\ pc[c] = "done" /\ c \in DOMAIN upload_tasks
        /\ loc[c].result = "false" /\ upload_tasks[c].status \in TerminalStatuses

(***************************************************************************)
(* Properties of process_source, stated where it hands its result back:    *)
(* pc is "returned" and ext holds what the call did to its collaborators.  *)
(***************************************************************************)
Returned(c) == pc[c] = "returned"

DownloadSucceeded(c) == ext[c].downloaded # NoUrl

DownloadFailed(c) == ext[c].download = 1 /\ ext[c].downloaded = NoUrl

EmbedRaised(c) == ext[c].embed = 1 /\ ext[c].upsert = 0

StoreFailed(c) == ext[c].stored = "false"

\* C4: a YouTube ingestion whose download succeeds and whose engine raises
\* returns true when embedding and storing succeed; its content carries the
\* URL and its metadata has transcription_available false.
C4_EngineFailureFallsBack ==
    \A c \in Calls :
        (Returned(c) /\ DownloadSucceeded(c) /\ ext[c].engine = "raise"
            /\ ~EmbedRaised(c) /\ ~StoreFailed(c)) =>
            /\ loc[c].result = "true"
            /\ Len(ext[c].documents) >= 1
            /\ \A i \in 1..Len(ext[c].documents) :
                  /\ ext[c].documents[i].text = FallbackText(req[c].url)
                  /\ ext[c].metadatas[i].transcription_available = FALSE

\* C5: on a YouTube ingestion that returns true, transcription_available
\* is false exactly when the content is the URL-only fallback and true
\* exactly when it is the raw or the corrected transcript.
C5_FlagMatchesContent ==
    \A c \in Calls :
        (Returned(c) /\ ext[c].engine # "none" /\ loc[c].result = "true") =>
            \A i \in 1..Len(ext[c].documents) :
                /\ ext[c].metadatas[i].transcription_available = FALSE
                        <=> ext[c].documents[i].text.kind = "fallback"
                /\ ext[c].metadatas[i].transcription_available = TRUE
                        <=> ext[c].documents[i].text.kind \in {"raw", "corrected"}

\* C6: when the download raises or returns no file, the engine is never
\* invoked, nothing is chunked, embedded or stored, and the call returns
\* false.
C6_NoFileNoWork ==
    \A c \in Calls :
        DownloadFailed(c) =>
            /\ ext[c].transcribe = 0 /\ ext[c].chunks = -1
            /\ ext[c].embed = 0 /\ ext[c].upsert = 0
            /\ Returned(c) => loc[c].result = "false"

\* a YouTube ingestion that returned after a failed download
C6_Witness == \E c \in Calls : Returned(c) /\ DownloadFailed(c)

\* C7: the audio file a YouTube ingestion downloaded is gone when the call
\* returns, whatever it returns.
C7_AudioFileDeleted ==
    \A c \in Calls :
        (Returned(c) /\ DownloadSucceeded(c)) => fs[ext[c].downloaded] # c

\* C8: an ingestion that returns true has called the upsert exactly once,
\* with at least one document, and with documents, vectors and metadatas of
\* one length, the number of chunks of the text.
C8_OneUpsertAligned ==
    \A c \in Calls :
        (Returned(c) /\ loc[c].result = "true") =>
            /\ ext[c].upsert = 1
            /\ Len(ext[c].documents) >= 1
            /\ ext[c].documents = split_text(ext[c].documents[1].text)
            /\ Len(ext[c].embeddings) = Len(ext[c].documents)
            /\ Len(ext[c].metadatas) = Len(ext[c].documents)

\* an ingestion of a text of several chunks that returned true
C8_Witness ==
    \E c \in Calls :
        Returned(c) /\ loc[c].result = "true" /\ Len(ext[c].documents) >= 2

\* C9: when the embedding raises or the upsert fails, process_source
\* returns false.
C9_StoreFailureFails ==
    \A c \in Calls :
        (Returned(c) /\ (EmbedRaised(c) \/ StoreFailed(c))) => loc[c].result = "false"

\* C10: when the extraction yields no documents or only whitespace, or the
\* chunking yields no chunks, neither the embedder nor the store is called
\* and the call returns false.
C10_NothingToStore ==
    \A c \in Calls :
        (ext[c].loaded \in {"no_documents", "blank"} \/ ext[c].chunks = 0) =>
            /\ ext[c].embed = 0 /\ ext[c].upsert = 0
            /\ Returned(c) => loc[c].result = "false"

\* an ingestion whose text gave no chunks, and one whose extractor gave
\* only whitespace
C10_Witness ==
    \E c \in Calls :
        Returned(c) /\ (ext[c].chunks = 0 \/ ext[c].loaded = "blank")

(***************************************************************************)
(* Properties of the entry points and of the dispatch.                     *)
(***************************************************************************)
SupportedTypes == {"text", "pdf", "markdown", "url", "youtube"}

\* C11: process_source is never entered with source_type "url" and a value
\* whose host is in the YouTube allow-list, whatever entry point the value
\* came through.
C11_YouTubeNeverAsUrl ==
    \A c \in Calls :
        (pc[c] = "process_source" /\ loc[c].ptype = "url") => ~is_youtube_url(req[c].url)

\* C12: for each of the five supported source types process_source hands
\* back a boolean and never an exception, whatever its collaborators raise.
C12_NeverRaises ==
    \A c \in Calls :
        (Returned(c) /\ loc[c].ptype \in SupportedTypes) =>
            loc[c].raised = "none" /\ loc[c].result \in {"true", "false"}

\* a call of a supported type that returned after its embedding raised
C12_Witness ==
    \E c \in Calls :
        Returned(c) /\ loc[c].ptype \in SupportedTypes /\ EmbedRaised(c)

C14_PersistenceNeverDecides ==
    \A c \in Calls :
        (Returned(c) /\ ext[c].download = 1) =>
            (loc[c].result = "true" <=> (DownloadSucceeded(c) /\ ~EmbedRaised(c)))

Issued(t) == t \in Calls /\ resp[t] = 202

\* C16: on both status endpoints, a read of a task whose background unit
\* has not run yet answers status queued, and a read of a task id that was
\* never issued answers 404.
C16_StatusRead ==
    \A t \in TaskIds :
        /\ (t \in Calls /\ pc[t] = "queued") =>
                /\ get_upload_status(t).code = 200
                /\ get_upload_status(t).body.status = "queued"
                /\ get_data_source_status(t).code = 200
                /\ get_data_source_status(t).body.status = "queued"
        /\ ~Issued(t) =>
                /\ get_upload_status(t).code = 404
                /\ get_data_source_status(t).code = 404

\* a task is queued, its unit has not run, and the id 0 is unknown
C16_Witness ==
    \E t \in Calls :
        /\ pc[t] = "queued" /\ get_data_source_status(t).code = 200
        /\ get_upload_status(0) = NotFound

(***************************************************************************)
(* Properties of the metadata stored with the chunks.  The metadata a      *)
(* caller of /api/ingest supplied is req[c].metadata; the other entry      *)
(* points take none from their caller.                                     *)
(***************************************************************************)
\* C17: after a successful ingestion, through any entry point and for any
\* source type, the metadata stored with every chunk has a source_type
\* entry and every key the caller supplied.
C17_SourceTypeAndCallerKeys ==
    \A c \in Calls :
        (Returned(c) /\ loc[c].result = "true") =>
            \A i \in 1..Len(ext[c].metadatas) :
                /\ "source_type" \in DOMAIN ext[c].metadatas[i]
                /\ DOMAIN req[c].metadata \subseteq DOMAIN ext[c].metadatas[i]

\* C18: where the caller's metadata and the extractor's metadata have a
\* key in common, the metadata stored with the chunks keeps the caller's
\* value.
C18_CallerValuesKept ==
    \A c \in Calls :
        (Returned(c) /\ loc[c].result = "true") =>
            \A i \in 1..Len(ext[c].metadatas) :
                \A k \in (DOMAIN req[c].metadata) \cap (DOMAIN ext[c].metadatas[i]) :
                    ext[c].metadatas[i][k] = req[c].metadata[k]

\* C19: after a YouTube ingestion whose record was created and whose
\* transcription succeeded (and whose update of the record with the result
\* was committed), the record holds the raw transcript, the corrected
\* transcript, the engine name, the processing duration and status
\* completed.
C19_RecordHoldsResult ==
    \A c \in Calls :
        (/\ Returned(c) /\ ext[c].record # 0 /\ ext[c].engine = "text"
         /\ transcriptions[ext[c].record].processed_at = "utcnow") =>
            LET row == transcriptions[ext[c].record]
            IN  /\ row.transcription_text.kind = "raw"
                /\ "corrected_text" \in DOMAIN row
                /\ row.transcription_engine = "whisper"
                /\ row.processing_duration = "measured"
                /\ row.status = "completed"

(***************************************************************************)
(* Properties of the collection under several ingestions.                  *)
(***************************************************************************)
\* the entries of the collection that hold chunk i of call c
EntriesOf(c, i) ==
    {j \in 1..Len(collection) :
        /\ collection[j].document = ext[c].documents[i]
        /\ collection[j].metadata = ext[c].metadatas[i]}

\* C20: after two ingestion calls into the collection have both returned
\* true (their upserts having reported success), one after the other or
\* interleaved, the collection holds the chunks of both: every chunk of
\* either call has an entry, and there are as many entries as chunks.
C20_BothCallsKept ==
    \A c \in DOMAIN pc : \A d \in DOMAIN pc :
        (/\ c # d
         /\ Returned(c) /\ loc[c].result = "true" /\ ext[c].stored = "true"
         /\ Returned(d) /\ loc[d].result = "true" /\ ext[d].stored = "true") =>
            /\ \A i \in 1..Len(ext[c].documents) : EntriesOf(c, i) # {}
            /\ \A i \in 1..Len(ext[d].documents) : EntriesOf(d, i) # {}
            /\ Len(collection) >= Len(ext[c].documents) + Len(ext[d].documents)

(***************************************************************************)
(* Properties of the validation of /api/data_source/add.                   *)
(***************************************************************************)
\* a body that fails the validation the interface describes
InvalidAdd(r) ==
    \/ r.source_type \notin {"url", "markdown"}
    \/ r.text.kind \in {"missing", "number"}
    \/ (r.source_type = "markdown" /\ StripsToEmpty(r.text))
    \/ (r.source_type = "url" /\ r.url.scheme \notin {"http", "https"})

\* C21: a POST /api/data_source/add that fails validation (type or value
\* missing, type other than url or markdown, value empty, blank or not a
\* string, URL without http:// or https://) is answered 400, adds no task
\* and starts no background unit.
C21_InvalidAddRejected ==
    \A c \in Calls :
        (req[c].kind = "add" /\ InvalidAdd(req[c])) =>
            resp[c] = 400 /\ c \notin DOMAIN upload_tasks /\ pc[c] = "done"

\* the applications of correct_transcription made so far, in order
Corrections == {i \in 1..Len(fcall.rets) : fcall.fn = "correct_transcription"}

\* C22: correct_transcription never propagates an error: every call
\* returns a text, and a call in which an internal step failed returns its
\* input unchanged.
C22_CorrectionNeverRaises ==
    \A i \in Corrections :
        /\ fcall.rets[i].ret.raised = "none"
        /\ fcall.rets[i].ret.internal_error => fcall.rets[i].ret.text = fcall.rets[i].arg

\* C22 as the code has it: an empty argument is refused with ValueError
\* before anything is tried; every other string yields a returned text,
\* and a call in which an internal step failed returns its input unchanged.
C22_Amended ==
    \A i \in Corrections :
        /\ fcall.rets[i].arg = <<>> => fcall.rets[i].ret.raised = "ValueError"
        /\ fcall.rets[i].arg # <<>> =>
              /\ fcall.rets[i].ret.raised = "none"
              /\ fcall.rets[i].ret.internal_error => fcall.rets[i].ret.text = fcall.rets[i].arg

\* a text the correction would have changed comes back as it was given
\* because an internal step failed
C22_Witness ==
    \E i \in Corrections :
        /\ fcall.rets[i].arg = <<"b", " ", "u","m", " ", "b">>
        /\ fcall.rets[i].ret.internal_error
        /\ fcall.rets[i].ret.text = fcall.rets[i].arg
        /\ TextCorrectionService_correct_transcription(fcall.rets[i].arg, FALSE).text # fcall.rets[i].arg

\* C23: text correction is idempotent on its own output: for a non-empty
\* text, correcting the corrected text returns the corrected text again.
C23_CorrectionIdempotent ==
    \A i \in Corrections :
        ( /\ i > 1
          /\ fcall.arg # <<>>
          /\ \A j \in 1..i : ~fcall.rets[j].ret.internal_error )
        => fcall.rets[i].ret = fcall.rets[i-1].ret

\* the dotted names whose text after the last dot is pdf or md in any
\* mix of upper and lower case, written without lower()
CaseVariants(ch) ==
    CASE ch = "p" -> {"p", "P"}
      [] ch = "d" -> {"d", "D"}
      [] ch = "f" -> {"f", "F"}
      [] ch = "m" -> {"m", "M"}

SpelledAs(s, word) == Len(s) = Len(word) /\ \A i \in 1..Len(s) : s[i] \in CaseVariants(word[i])

EndsInPdfOrMd(name) ==
    \E i \in 1..Len(name) :
        /\ name[i] = "."
        /\ \A j \in (i+1)..Len(name) : name[j] # "."
        /\ \/ SpelledAs(SubSeq(name, i + 1, Len(name)), <<"p","d","f">>)
           \/ SpelledAs(SubSeq(name, i + 1, Len(name)), <<"m","d">>)

\* C24: _is_allowed_file(name) is true exactly when name has a dot and
\* the text after its last dot is pdf or md whatever the case of its
\* letters; it is false for a name without a dot and for the empty name.
C24_AllowedFile ==
    (fcall.fn = "_is_allowed_file" /\ fcall.rets # <<>>) =>
        /\ fcall.rets[1].ret = EndsInPdfOrMd(fcall.arg)
        /\ (fcall.arg = <<>> \/ ~HasDot(fcall.arg)) => ~fcall.rets[1].ret

\* a name whose text after the last dot is md in mixed case is accepted
C24_Witness ==
    /\ fcall.fn = "_is_allowed_file"
    /\ fcall.rets # <<>>
    /\ fcall.arg = <<"p","d","f", ".", "m","D">>
    /\ fcall.rets[1].ret

(***************************************************************************)
(* Properties of the order of the stages and of concurrent runs.           *)
(***************************************************************************)
\* C25: within one ingestion call the stages run in the order extract,
\* chunk, embed, store and each at most once: the text is chunked only
\* after it was extracted (for a video: downloaded, then transcribed),
\* the embedder is called only on at least one chunk, the upsert is made
\* only with the vectors the embedder returned, and after a stage failed
\* neither it nor a later stage is run.
C25_StagesInOrder ==
    \A c \in Calls :
        LET e == ext[c]
        IN  /\ e.download <= 1 /\ e.transcribe <= 1 /\ e.correct <= 1
            /\ e.embed <= 1 /\ e.upsert <= 1
            /\ e.transcribe = 1 => DownloadSucceeded(c)
            /\ e.correct = 1 => e.transcribe = 1
            /\ (e.chunks # -1 /\ loc[c].ptype \in {"pdf", "markdown", "url"}) => e.loaded = "doc"
            /\ (e.chunks # -1 /\ loc[c].ptype = "youtube") => e.transcribe = 1
            /\ e.embed = 1 => e.chunks >= 1
            /\ e.upsert = 1 => (e.embed = 1 /\ Len(e.embeddings) = e.chunks)
            /\ DownloadFailed(c) => (e.transcribe = 0 /\ e.chunks = -1)
            /\ e.loaded \in {"raise", "no_documents"} => e.chunks = -1
            /\ e.chunks = 0 => (e.embed = 0 /\ e.upsert = 0)

\* a video was downloaded, transcribed, corrected, chunked, embedded and stored
C25_Witness ==
    \E c \in Calls :
        /\ Returned(c)
        /\ loc[c].ptype = "youtube"
        /\ ext[c].download = 1 /\ ext[c].transcribe = 1 /\ ext[c].correct = 1
        /\ ext[c].chunks >= 2 /\ ext[c].embed = 1 /\ ext[c].upsert = 1

\* the messages written when a task is created (routes.py lines 466, 564)
CreationMessages ==
    {Msg("File uploaded, processing queued", ""), Msg("Data source queued for processing", "")}

\* C26: a status read that answers completed or failed carries, in the
\* same answer, the final message of that outcome and never the message
\* written when the task was created, wherever the read falls between the
\* writes of the background unit.
C26_TerminalReadHasFinalMessage ==
    \A t \in TaskIds :
        /\ (get_upload_status(t).code = 200
                /\ get_upload_status(t).body.status \in TerminalStatuses)
              => get_upload_status(t).body.message \notin CreationMessages
        /\ (get_data_source_status(t).code = 200
                /\ get_data_source_status(t).body.status \in TerminalStatuses)
              => get_data_source_status(t).body.message \notin CreationMessages

\* C27: with several video ingestions running on the shared download
\* directory, the audio file a call is about to transcribe, and the one it
\* is about to delete, is the file that call downloaded.
C27_OwnAudioFile ==
    \A c \in DOMAIN pc :
        pc[c] \in {"yt_transcribe", "yt_cleanup"} => fs[loc[c].path] = c

(***************************************************************************)
(* Properties of the upload's source type, of the record's status and of   *)
(* the host check.                                                         *)
(***************************************************************************)
\* C28: every upload accepted by the extension check is ingested with the
\* source type of the extension of its original name - pdf for .pdf,
\* markdown for .md - whatever name secure_filename or the generated
\* fallback made of it: once the unit has started, no "unsupported file
\* type" error is raised and process_source is given that type.
C28_UploadTypeFromOriginalName ==
    \A c \in Calls :
        ( /\ req[c].kind = "upload"
          /\ resp[c] = 202
          /\ pc[c] \in {"process_source", "load", "chunk", "returned"} )
        => /\ loc[c].raised # "Unsupported file type"
           /\ loc[c].ptype = _determine_file_type(req[c].filename)

\* C29: once a video ingestion has set the status of its transcription
\* record to completed, no later step sets that status to error.
C29_CompletedNeverError ==
    [][\A r \in DOMAIN transcriptions :
          transcriptions[r].status = "completed" => transcriptions'[r].status # "error"]_vars

\* C30: a youtube-type ingestion whose URL host, lower-cased, is none of
\* youtube.com, www.youtube.com, youtu.be, music.youtube.com returns false
\* and nothing else: no transcription record is created for it, and nothing
\* is downloaded, transcribed, embedded or stored.
C30_ForeignHostRejected ==
    \A c \in Calls :
        (loc[c].ptype = "youtube" /\ Lower(req[c].url.netloc) \notin YouTubeHosts)
        => /\ pc[c] \notin {"yt_download", "yt_transcribe", "chunk", "yt_cleanup", "yt_except"}
           /\ ext[c] = NoExt
           /\ loc[c].rec = 0
           /\ \A r \in DOMAIN transcriptions : transcriptions[r].youtube_url # req[c].url
           /\ Returned(c) => loc[c].result = "false"

\* a youtube-type ingestion of a page of another host has returned
C30_Witness ==
    \E c \in Calls :
        /\ Returned(c)
        /\ loc[c].ptype = "youtube"
        /\ req[c].url = WebUrl
        /\ loc[c].result = "false"

====
